---------------------------- MODULE Spec2Model ----------------------------
(***************************************************************************)
(* Model of neural_networks/cnn/tensor_serializer.py, the dataset          *)
(* splitter: it creates the train and test tensor directories, lists the   *)
(* regular files of the source directory, shuffles the list and, for each  *)
(* position of the shuffled list, serialises a `.jpg` file to the train    *)
(* directory or to the test directory, then prints `Done`.                 *)
(*                                                                         *)
(* A path is a sequence of tokens.  A directory component is one token, a  *)
(* file name is spelled character by character, so that endswith,          *)
(* basename and splitext work on the name as the library does.             *)
(*                                                                         *)
(* The file system is the pair (dirs, fs): the set of directories and a    *)
(* function from the paths of regular files to their content.  A content   *)
(* records what the file holds (an image, or the tensor of an image,       *)
(* complete or cut short) and its modification time relative to the start  *)
(* of the running process ("before" or "during").  The script              *)
(* is a single sequential process; pc is the statement it is at.  Each     *)
(* library call that can raise (makedirs, listdir, Image.open, torch.save) *)
(* has a failing outcome, which ends the process (no handler exists).      *)
(* StartRun is the user starting the script again on the same file system. *)
(***************************************************************************)
EXTENDS Integers, Sequences, FiniteSets

VARIABLES
    pc,       \* the statement the process is at, or "done" / "aborted"
    dirs,     \* file system: the set of directories
    fs,       \* file system: path of a regular file -> its content
    files,    \* the list `files` (lines 19, 21)
    counter,  \* the loop index `counter` (line 23)
    failure,  \* the call that raised in this run, "none" if none has
    printed,  \* how many times this run has printed `Done`
    written,  \* history: the torch.save calls of this run that returned
    prev      \* history: how the previous run ended and what it wrote

vars == <<pc, dirs, fs, files, counter, failure, printed, written, prev>>

\* ------------------------------------------------------------------ bounds

\* The literal 25000 of `counter < (0.8 * 25000)` (line 27), scaled down so
\* that the model has positions on both sides of the threshold.
DatasetSize == 2

\* The largest number of regular files the source directory starts with.
MaxFiles == 3

\* ------------------------------------------------------------------- paths

Sep == "\\"

AltSep == "/"

ExtSep == "."

\* '.jpg', the suffix tested at line 24
JpgSuffix == <<".", "j", "p", "g">>

\* '.pt', the extension of f'{file_name}.pt' (lines 28, 30)
PtSuffix == <<".", "p", "t">>

\* line 12 (the absolute path is one token)
root_dir == <<"cats_dogs">>

\* variant: the train tensors are put in the source directory itself
TensorDirAtRoot == root_dir

\* line 13: root_dir + '\\tensors\\train'
tensor_dir == root_dir \o <<Sep, "tensors", Sep, "train">>

\* line 14: root_dir + '\\tensors\\test'
test_tensor_dir == root_dir \o <<Sep, "tensors", Sep, "test">>

\* The file names the source directory may hold.
FileNames ==
    { <<"a", ".", "j", "p", "g">>,
      <<"a", ".", "p", "n", "g">>,
      <<".", "j", "p", "g">>,
      <<".", "j", "p", "g", ".", "j", "p", "g">> }

\* os.path.join(a, b) for a relative b
Join(a, b) == a \o <<Sep>> \o b

\* str.rfind for a one-character needle: the last index (1-based) of ch in p, 0 if none
RFind(p, ch) ==
    IF \E i \in 1..Len(p) : p[i] = ch
    THEN CHOOSE i \in 1..Len(p) : p[i] = ch /\ \A j \in (i+1)..Len(p) : p[j] # ch
    ELSE 0

Max(a, b) == IF a >= b THEN a ELSE b

\* the index of the last separator of p, 0 if none
LastSep(p) == Max(RFind(p, Sep), RFind(p, AltSep))

\* os.path.basename(p)
basename(p) == SubSeq(p, LastSep(p) + 1, Len(p))

\* os.path.dirname(p)
dirname(p) == SubSeq(p, 1, LastSep(p) - 1)

\* os.path.splitext(p)[0]: the extension starts at the last dot after the last
\* separator, unless only dots precede it in the file name (leading dots are
\* not an extension)
splitext_root(p) ==
    LET sepIndex == LastSep(p)
        dotIndex == RFind(p, ExtSep)
    IN  IF /\ dotIndex > sepIndex
           /\ \E k \in (sepIndex + 1)..(dotIndex - 1) : p[k] # ExtSep
        THEN SubSeq(p, 1, dotIndex - 1)
        ELSE p

\* str.endswith
endswith(p, suffix) ==
    /\ Len(p) >= Len(suffix)
    /\ SubSeq(p, Len(p) - Len(suffix) + 1, Len(p)) = suffix

\* variant: no filter on the extension
EveryFileIsJpg(file) == TRUE

\* line 24: file.endswith('.jpg')
IsJpg(file) == endswith(file, JpgSuffix)

\* line 26: os.path.splitext(os.path.basename(file))[0]
file_name(file) == splitext_root(basename(file))

\* variant: the threshold position itself still goes to train
SplitOffByOne(index) == 10 * index < 8 * DatasetSize + 10

\* variant: the threshold is 0.8 of the number of listed files
SplitByFileCount(index) == 10 * index < 8 * Len(files)

\* line 27: counter < (0.8 * 25000), in tenths to stay in the integers
InTrainSplit(index) == 10 * index < 8 * DatasetSize

\* lines 28, 30: f'{file_name}.pt'
pt_name(file) == file_name(file) \o PtSuffix

\* pt_name over the paths the source directory may hold, computed once
PtNames == [p \in { Join(root_dir, n) : n \in FileNames } |-> pt_name(p)]

\* lines 27-30: the directory the file at position index is saved to
DestDir(index) == IF InTrainSplit(index) THEN tensor_dir ELSE test_tensor_dir

\* ------------------------------------------------------------- file system

\* the directory d and the directories above it, which os.makedirs creates
Ancestors(d) ==
    { SubSeq(d, 1, i) : i \in { j \in 1..Len(d) : j = Len(d) \/ d[j + 1] = Sep } }

\* os.listdir(d): the names of the files and directories directly inside d
listdir(d) ==
    { basename(p) : p \in { q \in (DOMAIN fs) \cup dirs : Len(q) > Len(d) /\ dirname(q) = d } }

\* os.path.isfile(p)
isfile(p) == p \in DOMAIN fs

\* the content of the source image at path p, there before the first run
Image(p) == [kind |-> "image", of |-> p, partial |-> FALSE, mtime |-> "before"]

\* line 25: transform(Image.open(file).resize((300, 300))), the tensor of an
\* image, as the running process writes it
transform(img) == [kind |-> "tensor", of |-> img.of, partial |-> FALSE, mtime |-> "during"]

\* the file system as a process started now sees it: every file was last
\* modified before the process started
Aged(fsys) == [q \in DOMAIN fsys |-> [fsys[q] EXCEPT !.mtime = "before"]]

\* what a torch.save that ran out of space leaves behind
Truncated(t) == [t EXCEPT !.partial = TRUE]

\* variant: an existing file is kept, not overwritten
StoreIfAbsent(fsys, p, c) ==
    IF p \in DOMAIN fsys THEN fsys
    ELSE [q \in (DOMAIN fsys) \cup {p} |-> IF q = p THEN c ELSE fsys[q]]

\* the file system after content c is written to path p (created or overwritten)
Store(fsys, p, c) == [q \in (DOMAIN fsys) \cup {p} |-> IF q = p THEN c ELSE fsys[q]]

\* the orders a finite set can be listed in
Orders(S) ==
    { f \in [1..Cardinality(S) -> S] : \A i, j \in 1..Cardinality(S) : f[i] = f[j] => i = j }

Range(f) == { f[i] : i \in DOMAIN f }

\* ------------------------------------------------------------------- state

Init ==
    /\ pc = "mk_train"
    /\ dirs = {root_dir}
    /\ \E names \in SUBSET FileNames :
          /\ Cardinality(names) <= MaxFiles
          /\ fs = [p \in { Join(root_dir, n) : n \in names } |-> Image(p)]
    /\ files = <<>>
    /\ counter = 0
    /\ failure = "none"
    /\ printed = 0
    /\ written = {}
    /\ prev = [ran |-> FALSE, done |-> FALSE, paths |-> {}]

\* line 16: os.makedirs(tensor_dir, exist_ok=True)
MakeTrainDir ==
    /\ pc = "mk_train"
    /\ dirs' = dirs \cup Ancestors(tensor_dir)
    /\ pc' = "mk_test"
    /\ UNCHANGED <<fs, files, counter, failure, printed, written, prev>>

\* line 17: os.makedirs(test_tensor_dir, exist_ok=True)
MakeTestDir ==
    /\ pc = "mk_test"
    /\ dirs' = dirs \cup Ancestors(test_tensor_dir)
    /\ pc' = "list"
    /\ UNCHANGED <<fs, files, counter, failure, printed, written, prev>>

\* lines 16-17: os.makedirs raises (permission error); nothing catches it
MakeDirFail ==
    /\ pc \in {"mk_train", "mk_test"}
    /\ pc' = "aborted"
    /\ failure' = "makedirs"
    /\ UNCHANGED <<dirs, fs, files, counter, printed, written, prev>>

\* line 19: the regular files directly inside root_dir, in the order listdir gives
ListFiles ==
    /\ pc = "list"
    /\ files' \in Orders({ Join(root_dir, f) : f \in { g \in listdir(root_dir) : isfile(Join(root_dir, g)) } })
    /\ pc' = "shuffle"
    /\ UNCHANGED <<dirs, fs, counter, failure, printed, written, prev>>

\* line 19: os.listdir raises
ListFail ==
    /\ pc = "list"
    /\ pc' = "aborted"
    /\ failure' = "listdir"
    /\ UNCHANGED <<dirs, fs, files, counter, printed, written, prev>>

\* line 21: random.shuffle(files), unseeded: any order of the same files
Shuffle ==
    /\ pc = "shuffle"
    /\ files' \in Orders(Range(files))
    /\ counter' = 0
    /\ pc' = "loop"
    /\ UNCHANGED <<dirs, fs, failure, printed, written, prev>>

\* lines 23-24: the file at this position does not end in '.jpg'; next position
SkipFile ==
    /\ pc = "loop"
    /\ counter < Len(files)
    /\ ~IsJpg(files[counter + 1])
    /\ counter' = counter + 1
    /\ UNCHANGED <<pc, dirs, fs, files, failure, printed, written, prev>>

\* lines 25-30 for a destination directory: decode, name, save, next position
SaveTo(dir) ==
    LET file == files[counter + 1]
        path == Join(dir, PtNames[file])
    IN  /\ isfile(file)
        /\ dir \in dirs
        /\ fs' = Store(fs, path, transform(fs[file]))
        /\ written' = written \cup {[pos |-> counter, src |-> file, path |-> path]}
        /\ counter' = counter + 1
        /\ UNCHANGED <<pc, dirs, files, failure, printed, prev>>

\* variant: the else branch saves nothing
SaveTestDropped ==
    /\ pc = "loop"
    /\ counter < Len(files)
    /\ IsJpg(files[counter + 1])
    /\ ~InTrainSplit(counter)
    /\ counter' = counter + 1
    /\ UNCHANGED <<pc, dirs, fs, files, failure, printed, written, prev>>

\* lines 24-28: a '.jpg' file below the threshold is saved to the train directory
SaveTrain ==
    /\ pc = "loop"
    /\ counter < Len(files)
    /\ IsJpg(files[counter + 1])
    /\ InTrainSplit(counter)
    /\ SaveTo(tensor_dir)

\* lines 24-30: a '.jpg' file at or above the threshold is saved to the test directory
SaveTest ==
    /\ pc = "loop"
    /\ counter < Len(files)
    /\ IsJpg(files[counter + 1])
    /\ ~InTrainSplit(counter)
    /\ SaveTo(test_tensor_dir)

\* variant: a decode failure is caught and the loop goes on
DecodeFailSkipsFile ==
    /\ pc = "loop"
    /\ counter < Len(files)
    /\ IsJpg(files[counter + 1])
    /\ failure' = "decode"
    /\ counter' = counter + 1
    /\ UNCHANGED <<pc, dirs, fs, files, printed, written, prev>>

\* line 25: Image.open / resize / ToTensor raises (corrupt image, unreadable file)
DecodeFail ==
    /\ pc = "loop"
    /\ counter < Len(files)
    /\ IsJpg(files[counter + 1])
    /\ pc' = "aborted"
    /\ failure' = "decode"
    /\ UNCHANGED <<dirs, fs, files, counter, printed, written, prev>>

\* lines 28, 30: torch.save raises.  Either the file could not be opened
\* (permission error) and nothing changes, or it was opened, which creates or
\* truncates it, and the write ran out of space.
SaveFail ==
    /\ pc = "loop"
    /\ counter < Len(files)
    /\ IsJpg(files[counter + 1])
    /\ isfile(files[counter + 1])
    /\ LET file == files[counter + 1]
           path == Join(DestDir(counter), PtNames[file])
       IN  \/ UNCHANGED fs
           \/ fs' = Store(fs, path, Truncated(transform(fs[file])))
    /\ pc' = "aborted"
    /\ failure' = "save"
    /\ UNCHANGED <<dirs, files, counter, printed, written, prev>>

\* variant: the print is inside the loop body
PrintInLoop ==
    /\ pc = "loop"
    /\ printed' = printed + 1
    /\ pc' = IF counter = Len(files) THEN "done" ELSE "loop"
    /\ counter' = IF counter = Len(files) THEN counter ELSE counter + 1
    /\ UNCHANGED <<dirs, fs, files, failure, written, prev>>

\* line 33: print('Done'), reached when the loop has run out of files
PrintDone ==
    /\ pc = "loop"
    /\ counter = Len(files)
    /\ printed' = printed + 1
    /\ pc' = "done"
    /\ UNCHANGED <<dirs, fs, files, counter, failure, written, prev>>

\* The script is started again on the file system the last run left: a new
\* process, with the module's variables fresh.
StartRun ==
    /\ pc \in {"done", "aborted"}
    /\ pc' = "mk_train"
    /\ files' = <<>>
    /\ counter' = 0
    /\ failure' = "none"
    /\ printed' = 0
    /\ written' = {}
    /\ prev' = [ran |-> TRUE, done |-> (pc = "done"), paths |-> { r.path : r \in written }]
    /\ fs' = Aged(fs)
    /\ UNCHANGED dirs

\* one statement of the running script
RunStep ==
    \/ MakeTrainDir
    \/ MakeTestDir
    \/ MakeDirFail
    \/ ListFiles
    \/ ListFail
    \/ Shuffle
    \/ SkipFile
    \/ SaveTrain
    \/ SaveTest
    \/ DecodeFail
    \/ SaveFail
    \/ PrintDone

Next == RunStep \/ StartRun

Spec == Init /\ [][Next]_vars

\* The interpreter runs the script statement by statement until it ends or raises.
FairSpec == Spec /\ WF_vars(RunStep)

\* ------------------------------------------------- vocabulary of the claims

\* the path ends in the four characters . j p g
HasJpgExtension(p) ==
    /\ Len(p) >= 4
    /\ p[Len(p) - 3] = "."
    /\ p[Len(p) - 2] = "j"
    /\ p[Len(p) - 1] = "p"
    /\ p[Len(p)] = "g"

TrainPath == <<"cats_dogs", "\\", "tensors", "\\", "train">>

TestPath == <<"cats_dogs", "\\", "tensors", "\\", "test">>

\* the regular files directly inside the source directory
SourceFiles == { p \in DOMAIN fs : dirname(p) = <<"cats_dogs">> }

JpgSources == { p \in SourceFiles : HasJpgExtension(p) }

\* the regular files of the two destination directories
OutputFiles == { p \in DOMAIN fs : dirname(p) \in {TrainPath, TestPath} }

\* the output files this run created or overwrote (also those it cut short)
FreshOutputs == { p \in OutputFiles : fs[p].mtime = "during" }

TrainWrites == { r \in written : dirname(r.path) = TrainPath }

TestWrites == { r \in written : dirname(r.path) = TestPath }

\* the number of positions below 0.8 * DatasetSize (20000 for 25000)
Threshold == (8 * DatasetSize + 9) \div 10

Finished == pc \in {"done", "aborted"}

\* ------------------------------------------------------------------ claims

\* C1: no output derives from a source file whose path does not end in
\* `.jpg`: every torch.save call that returned was given the tensor of a
\* `.jpg` file, and every file of the train and test directories (complete or
\* cut short) holds the tensor of a `.jpg` file.
C1_NoOutputFromNonJpg ==
    /\ \A r \in written : HasJpgExtension(r.src)
    /\ \A p \in OutputFiles : HasJpgExtension(fs[p].of)

\* a completed run over a directory with a non-.jpg file at a position
\* before a .jpg file that was saved
C1_Witness ==
    /\ pc = "done"
    /\ \E i \in 1..Len(files) : ~HasJpgExtension(files[i]) /\ \E r \in written : r.pos >= i

\* C2: at the end of a completed first run (destination directories empty
\* at the start), for every `.jpg` source file the train and test directories
\* together hold exactly one file named <base>.pt, base being the file's base
\* name.
C2_ExactlyOneOutputPerJpg ==
    (pc = "done" /\ ~prev.ran) =>
        \A f \in JpgSources :
            Cardinality({ p \in OutputFiles : basename(p) = file_name(f) \o <<".", "p", "t">> }) = 1

\* C3: a `.jpg` file at position index of the shuffled list (positions count
\* every listed file) is saved once, to the train directory if index is below
\* the threshold and to the test directory otherwise, never to both.
C3_RoutedByPosition ==
    /\ \A r \in written :
          /\ r.pos < counter
          /\ r.src = files[r.pos + 1]
          /\ dirname(r.path) = IF r.pos < Threshold THEN TrainPath ELSE TestPath
    /\ \A r1, r2 \in written : r1.pos = r2.pos => r1 = r2
    /\ \A i \in 0..(counter - 1) :
          HasJpgExtension(files[i + 1]) => \E r \in written : r.pos = i

\* a completed run that saved to both directories, with a non-.jpg file at a
\* position below the threshold
C3_Witness ==
    /\ pc = "done"
    /\ TrainWrites # {}
    /\ TestWrites # {}
    /\ \E i \in 1..Len(files) : i - 1 < Threshold /\ ~HasJpgExtension(files[i])

\* C4: in a completed run the number of files saved to the train directory
\* plus the number saved to the test directory is the number of `.jpg`
\* regular files of the source directory.
C4_RoutedCount ==
    pc = "done" =>
        Cardinality(TrainWrites) + Cardinality(TestWrites) = Cardinality(JpgSources)

\* a completed run over .jpg and non-.jpg files that saved to both directories
C4_Witness ==
    /\ pc = "done"
    /\ SourceFiles # JpgSources
    /\ TrainWrites # {}
    /\ TestWrites # {}

\* C5 as stated: after a completed re-run over the directories a completed
\* run left, no output file the earlier run wrote survives un-overwritten.
C5_NoEarlierOutputSurvives ==
    (pc = "done" /\ prev.done) => \A p \in prev.paths : fs[p].mtime = "during"

\* C5 as amended: after a completed re-run over the directories a completed
\* run left, every `.jpg` input was processed again, every path the re-run
\* saved to holds what the re-run wrote, and an output of the earlier run
\* survives un-overwritten only where the re-run saved that name to the other
\* directory.
C5_OverwritesSamePath ==
    (pc = "done" /\ prev.done) =>
        /\ \A f \in JpgSources : \E r \in written : r.src = f
        /\ \A r \in written : r.path \in DOMAIN fs /\ fs[r.path].mtime = "during"
        /\ \A p \in prev.paths :
              fs[p].mtime = "before" =>
                  \E r \in written :
                      basename(r.path) = basename(p) /\ dirname(r.path) # dirname(p)

\* a completed re-run after a completed run: one earlier output overwritten,
\* another surviving
C5_Witness ==
    /\ pc = "done"
    /\ prev.done
    /\ \E p \in prev.paths : fs[p].mtime = "during"
    /\ \E p \in prev.paths : fs[p].mtime = "before"

\* C6: two completed runs on the same source directory save the same set of
\* output file names (across both destination directories).
C6_SameNamesAcrossRuns ==
    (pc = "done" /\ prev.done) =>
        { basename(r.path) : r \in written } = { basename(p) : p \in prev.paths }

\* two completed runs that saved the same names but assigned a file differently
C6_Witness ==
    /\ pc = "done"
    /\ prev.done
    /\ written # {}
    /\ { r.path : r \in written } # prev.paths

\* C7: once processing the file at a position has failed the run is over:
\* nothing is printed, no file at a later position has been saved or opened
\* for writing, and every path saved to at an earlier position is still there.
C7_AbortsAtFailure ==
    failure \in {"decode", "save"} =>
        /\ pc = "aborted"
        /\ counter < Len(files)
        /\ \A r \in written : r.pos < counter /\ r.path \in DOMAIN fs
        /\ \A p \in FreshOutputs : \E i \in 1..(counter + 1) : files[i] = fs[p].of

\* a run that failed after saving a file, with a .jpg file still to come
C7_Witness ==
    /\ pc = "aborted"
    /\ failure \in {"decode", "save"}
    /\ written # {}
    /\ \E i \in (counter + 2)..Len(files) : HasJpgExtension(files[i])

\* what every state says about `Done`: printed at most once, only by a run
\* that visited every listed file and in which nothing failed
DoneOnlyAtEnd ==
    /\ printed \in {0, 1}
    /\ printed = 1 <=> pc = "done"
    /\ printed = 1 =>
          /\ failure = "none"
          /\ counter = Len(files)
          /\ Range(files) = SourceFiles
    /\ failure # "none" => printed = 0 /\ pc = "aborted"

\* C8: `Done` is printed at most once per run and only after the loop has
\* visited every listed file; a run in which a call fails never prints it,
\* and a run in which none fails eventually prints it.
C8_DoneExactlyOnce ==
    /\ []DoneOnlyAtEnd
    /\ [](~Finished => <>(printed = 1 \/ failure # "none"))

\* a run over at least two files has printed `Done`
C8_Witness ==
    /\ printed = 1
    /\ Len(files) >= 2
    /\ written # {}

\* C9: no step changes the set of regular files of the source directory or
\* the content of any of them; a step changes files of the train and test
\* directories only.
C9_SourceNeverMutated ==
    [][ /\ [p \in SourceFiles |-> fs[p]]' = [p \in SourceFiles |-> fs[p]]
        /\ \A p \in DOMAIN fs' :
              (p \notin DOMAIN fs \/ [fs[p] EXCEPT !.mtime = "before"] # [fs'[p] EXCEPT !.mtime = "before"])
                  => dirname(p) \in {TrainPath, TestPath} ]_vars

\* a run has ended after saving the tensor of a source file
C9_Witness ==
    /\ Finished
    /\ written # {}
    /\ \A r \in written : r.src \in SourceFiles /\ fs[r.src] = Image(r.src)

\* C10: a run saves at most Threshold files to the train directory, and when
\* the source directory holds at most Threshold regular files nothing is
\* saved to (or opened for writing in) the test directory.
C10_ConstantThreshold ==
    /\ Cardinality(TrainWrites) <= Threshold
    /\ Cardinality(SourceFiles) <= Threshold =>
          /\ TestWrites = {}
          /\ \A p \in FreshOutputs : dirname(p) = TrainPath

\* a completed run over no more than Threshold files, all of them saved to
\* the train directory
C10_Witness ==
    /\ pc = "done"
    /\ Cardinality(SourceFiles) = Threshold
    /\ Cardinality(TrainWrites) = Threshold

=============================================================================
